---------------------------- MODULE Spec2Model ----------------------------
(***************************************************************************)
(* A model of dags/public-health/covid19/jhu-to-esri.py: the hourly task   *)
(* sync-jhu-to-esri, whose entry point load_data runs the county-level job *)
(* load_county_covid_data and then the state-level job                     *)
(* load_state_covid_data, each publishing two ESRI feature layers.         *)
(*                                                                         *)
(* Time is counted in hours since 2020-01-01 00:00.  A naive timestamp is  *)
(* a number of wall-clock hours, a timezone-aware timestamp is the number  *)
(* of UTC hours of its instant.  Days are numbered from 0 (January 1st).   *)
(***************************************************************************)
EXTENDS Integers, Sequences, FiniteSets, TLC

\* --------------------------------------------------------------------------
\* Bounds of the model.

\* Longest table the county time-series layer holds when the run starts.
MaxHist == 2
\* Days on each side of a daylight-saving transition that are explored.
DayWindow == 1
\* Most region rows of a JHU file handed to load_jhu_time_series alone.
MaxRegions == 2

\* --------------------------------------------------------------------------
\* Cell values of a dataframe.  pandas cells are dynamically typed: a cell is
\* None, NaN, a Python int, or a float (kept in tenths, so 25 is 2.5).

None == [k |-> "None", v |-> 0]
NaN == [k |-> "NaN", v |-> 0]
I(n) == [k |-> "int", v |-> n]
F(tenths) == [k |-> "float", v |-> tenths]

\* pd.isna(x)
isna(x) == x.k \in {"None", "NaN"}

\* --------------------------------------------------------------------------
\* The US/Pacific timezone in 2020: PST (UTC-8) until 02:00 on March 8th,
\* PDT (UTC-7) until 02:00 on November 1st, PST afterwards.

HoursPerDay == 24
DstStartDay == 31 + 29 + 7
DstEndDay == 31 + 29 + 31 + 30 + 31 + 30 + 31 + 31 + 30 + 31
DstStartUtc == DstStartDay * HoursPerDay + 2 + 8
DstEndUtc == DstEndDay * HoursPerDay + 2 + 7

\* A mutant of PacificOffset: a fixed-offset zone that ignores daylight saving.
PacificOffsetFixed(utc) == 0 - 8

\* The UTC offset, in hours, of US/Pacific at the instant utc.
PacificOffset(utc) == IF utc >= DstStartUtc /\ utc < DstEndUtc THEN 0 - 7 ELSE 0 - 8

\* Series.dt.tz_localize("US/Pacific") of a naive wall-clock time: the instant
\* whose Pacific wall clock reads `wall`.  A wall time skipped by the spring
\* transition or repeated by the autumn one raises; the result is then "raise".
tz_localize(wall) ==
    LET cands == {u \in {wall + 7, wall + 8} : u + PacificOffset(u) = wall}
    IN  IF Cardinality(cands) = 1 THEN CHOOSE u \in cands : TRUE ELSE 0 - 1

\* Timestamp.normalize() of an aware US/Pacific timestamp: midnight, on the
\* Pacific wall clock, of the timestamp's Pacific calendar day.
normalize(utc) ==
    LET wall == utc + PacificOffset(utc)
    IN  tz_localize(wall - (wall % HoursPerDay))

\* tz_convert("UTC") keeps the instant and changes the zone it is shown in.
tz_convert_utc(utc) == utc

\* jhu-to-esri.py line 54: pd.Timestamp.now(tz="US/Pacific").normalize()
\* .tz_convert("UTC"), for a clock that reads the instant `nowUtc`.
ExecutionDate(nowUtc) == tz_convert_utc(normalize(nowUtc))

\* JHU's date column headers, "m/d/20", as <<month, day>>.
DaysBefore == <<0, 31, 60, 91, 121, 152, 182, 213, 244, 274, 305, 335>>

\* pd.to_datetime of a JHU date string: naive midnight of that day.
to_datetime(md) == (DaysBefore[md[1]] + md[2] - 1) * HoursPerDay

\* load_jhu_county_time_series lines 221-224: pd.to_datetime(df.date)
\* .dt.tz_localize("US/Pacific").dt.normalize().dt.tz_convert("UTC").
JhuCountyDate(md) == tz_convert_utc(normalize(tz_localize(to_datetime(md))))



\* --------------------------------------------------------------------------
\* Dataframes.  A dataframe is the sequence of its rows; a county row is a
\* record with one field for each name in `columns`.

\* jhu-to-esri.py lines 57-70.
columns == <<"state", "county", "date", "latitude", "longitude", "cases",
             "deaths", "recovered", "travel_based", "locally_acquired",
             "ca_total", "non_scag_total">>

\* The columns coerce_integer rewrites (lines 110-118).
cols == <<"cases", "deaths", "recovered", "travel_based", "locally_acquired",
          "ca_total", "non_scag_total">>

Range(s) == {s[i] : i \in DOMAIN s}

\* A mutant of integrify: an unknown value becomes zero.
integrify_zero(x) == IF ~isna(x) THEN I(IF x.k = "float" THEN x.v \div 10 ELSE x.v) ELSE I(0)

\* coerce_integer's inner function (lines 107-108): int(float(x)) unless x is
\* null.  int() truncates; the counts of this model are never negative.
integrify(x) == IF ~isna(x) THEN I(IF x.k = "float" THEN x.v \div 10 ELSE x.v) ELSE None

\* coerce_integer (lines 99-120): df.assign of the seven integrified columns.
coerce_integer(df) ==
    [i \in DOMAIN df |->
        [c \in DOMAIN df[i] |-> IF c \in Range(cols) THEN integrify(df[i][c]) ELSE df[i][c]]]

\* A mutant of drop_duplicates: subset=["date"], the county left out of the key.
drop_duplicates_by_date(df) ==
    LET keep(i) == ~\E j \in DOMAIN df : j > i /\ df[j].date = df[i].date
        acc[i \in 0..Len(df)] ==
            IF i = 0 THEN <<>>
            ELSE IF keep(i) THEN Append(acc[i - 1], df[i]) ELSE acc[i - 1]
    IN  acc[Len(df)]

\* A mutant of drop_duplicates: keep="first".
drop_duplicates_first(df) ==
    LET keep(i) == ~\E j \in DOMAIN df : j < i /\ df[j].date = df[i].date
                                            /\ df[j].county = df[i].county
        acc[i \in 0..Len(df)] ==
            IF i = 0 THEN <<>>
            ELSE IF keep(i) THEN Append(acc[i - 1], df[i]) ELSE acc[i - 1]
    IN  acc[Len(df)]

\* DataFrame.drop_duplicates(subset=["date", "county"], keep="last"): a row
\* stays unless a later row has the same date and county; the order is kept.
drop_duplicates(df) ==
    LET keep(i) == ~\E j \in DOMAIN df : j > i /\ df[j].date = df[i].date
                                            /\ df[j].county = df[i].county
        acc[i \in 0..Len(df)] ==
            IF i = 0 THEN <<>>
            ELSE IF keep(i) THEN Append(acc[i - 1], df[i]) ELSE acc[i - 1]
    IN  acc[Len(df)]

\* DataFrame.append(other, sort=False): the rows of both frames.  pandas
\* stores a numeric column that holds a NaN or a float as float64, so the
\* integers of such a column come out as floats (12 as 12.0).
append(df, other) ==
    LET all == df \o other
        floating(c) == \E i \in DOMAIN all : all[i][c].k \in {"NaN", "float"}
        cell(c, x) == IF c \in Range(cols) /\ x.k = "int" /\ floating(c)
                      THEN F(x.v * 10) ELSE x
    IN  [i \in DOMAIN all |-> [c \in DOMAIN all[i] |-> cell(c, all[i][c])]]

\* Series.max() of the date column; NaT, here -1, for an empty column.
date_max(df) ==
    IF df = <<>> THEN 0 - 1
    ELSE CHOOSE d \in {df[i].date : i \in DOMAIN df} :
             \A i \in DOMAIN df : df[i].date <= d

\* A mutant of most_recent: the rows of the last row's date.
most_recent_last(df) ==
    SelectSeq(df, LAMBDA r : r.date = df[Len(df)].date)

\* df[df.date == df.date.max()] (line 535, and lines 482-484).
most_recent(df) ==
    SelectSeq(df, LAMBDA r : r.date = date_max(df))

\* --------------------------------------------------------------------------
\* The county scrapers (lines 244-414).  Each returns a dict of ten fields or
\* raises; the numbers are what the county's page shows when it is read.

\* The order in which scrape_county_public_health_data calls them.
scrapers == <<"Los Angeles", "Imperial", "Orange", "San Bernardino",
              "Riverside", "Ventura">>

Latitude == [c \in Range(scrapers) |->
    CASE c = "Los Angeles" -> "34.05" [] c = "Imperial" -> "32.8"
      [] c = "Orange" -> "33.74" [] c = "San Bernardino" -> "34.1"
      [] c = "Riverside" -> "33.948" [] c = "Ventura" -> "34.275"]

Longitude == [c \in Range(scrapers) |->
    CASE c = "Los Angeles" -> "-118.25" [] c = "Imperial" -> "-115.57"
      [] c = "Orange" -> "-117.88" [] c = "San Bernardino" -> "-117.3"
      [] c = "Riverside" -> "-117.396" [] c = "Ventura" -> "-119.228"]

\* What a page can show: the counts the scraper extracts from it.  The
\* Riverside scraper yields None for a count its regular expression misses.
Pages(c) ==
    CASE c = "Los Angeles" -> {[cases |-> I(40), deaths |-> I(2)]}
      [] c = "Imperial" -> {[cases |-> I(4)]}
      [] c = "Orange" -> {[cases |-> I(30), deaths |-> I(1), travel_based |-> I(9),
                            locally_acquired |-> I(6)]}
      [] c = "San Bernardino" -> {[cases |-> I(3)]}
      [] c = "Riverside" -> {[cases |-> I(7), travel_based |-> I(2),
                               locally_acquired |-> I(5)],
                              [cases |-> None, travel_based |-> I(2),
                               locally_acquired |-> None]}
      [] c = "Ventura" -> {[cases |-> I(1), deaths |-> I(0)]}

\* The dict a scraper returns for the page it read, on the run's date d.
scrape(c, page, d) ==
    LET field(f) == IF f \in DOMAIN page THEN page[f] ELSE None
    IN  [state |-> "CA", county |-> c, latitude |-> Latitude[c],
         longitude |-> Longitude[c], date |-> d, cases |-> field("cases"),
         deaths |-> field("deaths"), recovered |-> None,
         travel_based |-> field("travel_based"),
         locally_acquired |-> field("locally_acquired")]

\* DataFrame(other).reindex(columns=columns) of a list of scraped dicts (inside
\* df.append, line 460): a column no dict has holds NaN.
frame_of_dicts(dicts) ==
    [i \in DOMAIN dicts |->
        [c \in Range(columns) |-> IF c \in DOMAIN dicts[i] THEN dicts[i][c] ELSE NaN]]

\* --------------------------------------------------------------------------
\* The ESRI feature layers and the temporary files.

\* Lines 44-45 and 48-49.
time_series_featureid == "d61924e1d8344a09a1298707cfff388c"
current_featureid == "523a372d71014bd491064d74e3eba2c7"
jhu_time_series_featureid == "20271474d3c3404d9c79bed0dbd48580"
jhu_current_featureid == "191df200230642099002039816dc8c59"

FeatureIds == {time_series_featureid, current_featureid,
               jhu_time_series_featureid, jhu_current_featureid}

\* Lines 530, 534, 476 and 480.
county_time_series_filename == "/tmp/covid19_time_series.csv"
county_most_recent_date_filename == "/tmp/covid19_current.csv"
state_time_series_filename == "/tmp/jhu_covid19_time_series.csv"
state_most_recent_date_filename == "/tmp/jhu_covid19_current.csv"

Filenames == {county_time_series_filename, county_most_recent_date_filename,
              state_time_series_filename, state_most_recent_date_filename}

NoFile == [exists |-> FALSE, rows |-> <<>>]
File(rows) == [exists |-> TRUE, rows |-> rows]

\* --------------------------------------------------------------------------
\* The JHU time series (lines 82-96 and 123-176).  A wide table is a record of
\* its column names, in order, and its rows; a row maps each column name to
\* its cell.  Province/State, Country/Region, Lat and Long hold strings (an
\* absent province, NaN in pandas, is the string NoProvince), the date columns
\* hold counts.

NoProvince == "NaN"

\* The date column headers of this model, "m/d/20", in lexicographic order,
\* and the <<month, day>> each one spells.
DateHeaders == <<"3/10/20", "3/11/20", "3/9/20">>
MonthDay(c) == CASE c = "3/9/20" -> <<3, 9>> [] c = "3/10/20" -> <<3, 10>>
                 [] c = "3/11/20" -> <<3, 11>>

\* The strings the sort compares, in lexicographic order; NaN sorts last.
Lexicographic == <<"Canada", "China", "US", "Alberta", "California", "Hubei",
                   "Los Angeles, CA", "Washington">> \o DateHeaders \o <<NoProvince>>
StrRank(x) == CHOOSE i \in DOMAIN Lexicographic : Lexicographic[i] = x

\* str.endswith("20")
endswith20(c) == c \in Range(DateHeaders)

\* str.contains(","); NaN gives NaN, which the mask takes as False.
contains_comma(x) == x \in {"Los Angeles, CA"}

\* parse_columns (lines 82-96): <<id_vars, dates>>, each in column order.
parse_columns(df) ==
    <<SelectSeq(df.columns, LAMBDA c : ~endswith20(c)),
      SelectSeq(df.columns, LAMBDA c : endswith20(c))>>

\* Whether every name is a column of the table; pd.melt raises KeyError
\* otherwise.
has_columns(df, names) == Range(names) \subseteq Range(df.columns)

\* pd.melt(df, id_vars, value_vars, var_name, value_name): for each value
\* column in turn, one row for each row of df, in row order.
melt(df, id_vars, value_vars, var_name, value_name) ==
    LET n == Len(df.rows)
        row(k) ==
            LET r == df.rows[((k - 1) % n) + 1]
                c == value_vars[((k - 1) \div n) + 1]
            IN  [f \in Range(id_vars) \cup {var_name, value_name} |->
                    IF f = var_name THEN c
                    ELSE IF f = value_name THEN r[c] ELSE r[f]]
    IN  [k \in 1..(n * Len(value_vars)) |-> row(k)]

\* df[name] = other[name] (lines 149-150): the values are aligned on the row
\* index, 0, 1, ...; a row other does not have gets NaN.
assign_column(df, name, other) ==
    [i \in DOMAIN df |->
        [f \in DOMAIN df[i] \cup {name} |->
            IF f = name THEN (IF i \in DOMAIN other THEN other[i][name] ELSE NaN)
            ELSE df[i][f]]]

\* Whether load_jhu_time_series raises on these three tables: the recovered
\* table is melted with the columns of the deaths table (line 143).
jhu_time_series_raises(jhu) ==
    LET p == parse_columns(jhu.deaths)
    IN  ~has_columns(jhu.recovered, p[1] \o p[2])

\* DataFrame.rename(columns=...): the cells of column old go under new.
rename(df, old, new) ==
    [i \in DOMAIN df |->
        [f \in (DOMAIN df[i] \ {old}) \cup {new} |->
            IF f = new THEN df[i][old] ELSE df[i][f]]]

\* A mutant of load_jhu_time_series: the recovered frame is melted from the
\* deaths table.
load_jhu_time_series_deaths_twice(jhu) ==
    LET pc_ == parse_columns(jhu.cases)
        pd_ == parse_columns(jhu.deaths)
        df == melt(jhu.cases, pc_[1], pc_[2], "date", "cases")
        deaths_df == melt(jhu.deaths, pd_[1], pd_[2], "variable", "deaths")
        recovered_df == melt(jhu.deaths, pd_[1], pd_[2], "variable", "deaths")
    IN  assign_column(assign_column(df, "deaths", deaths_df),
                      "recovered", rename(recovered_df, "deaths", "recovered"))

\* load_jhu_time_series (lines 123-152), given the three tables read.
load_jhu_time_series(jhu) ==
    LET pc_ == parse_columns(jhu.cases)
        pd_ == parse_columns(jhu.deaths)
        df == melt(jhu.cases, pc_[1], pc_[2], "date", "cases")
        deaths_df == melt(jhu.deaths, pd_[1], pd_[2], "variable", "deaths")
        recovered_df == melt(jhu.recovered, pd_[1], pd_[2], "variable", "recovered")
    IN  assign_column(assign_column(df, "deaths", deaths_df), "recovered", recovered_df)

\* The sort key of lines 174-176: date, Country/Region, Province/State, all
\* compared as strings.
state_row_before(a, b) ==
    LET ka == <<StrRank(a["date"]), StrRank(a["Country/Region"]), StrRank(a["Province/State"])>>
        kb == <<StrRank(b["date"]), StrRank(b["Country/Region"]), StrRank(b["Province/State"])>>
    IN  \/ ka[1] < kb[1]
        \/ ka[1] = kb[1] /\ ka[2] < kb[2]
        \/ ka[1] = kb[1] /\ ka[2] = kb[2] /\ ka[3] < kb[3]

\* sort_values (a stable sort): row i goes after the rows that sort before
\* it and the earlier rows that tie with it.
sort_values(df) ==
    LET pos(i) == 1 + Cardinality({j \in DOMAIN df :
                        \/ state_row_before(df[j], df[i])
                        \/ j < i /\ ~state_row_before(df[i], df[j])})
    IN  [k \in DOMAIN df |-> df[CHOOSE i \in DOMAIN df : pos(i) = k]]

\* load_jhu_state_time_series (lines 155-176).
load_jhu_state_time_series(jhu) ==
    LET df == load_jhu_time_series(jhu)
        kept == SelectSeq(df, LAMBDA r :
                    ~(r["Country/Region"] = "US" /\ contains_comma(r["Province/State"])))
        renamed == rename(rename(rename(kept, "cases", "number_of_cases"),
                                 "deaths", "number_of_deaths"),
                          "recovered", "number_of_recovered")
    IN  sort_values(renamed)

\* df.assign(date=pd.to_datetime(df.date)) (line 481).
parse_dates(df) ==
    [i \in DOMAIN df |-> [df[i] EXCEPT !["date"] = to_datetime(MonthDay(@))]]

\* --------------------------------------------------------------------------
\* What the run finds: the clock, the county time-series layer, the JHU files.

\* The instant the task runs at: March 9th 2020, 10:00 PDT.
RunNow == (DstStartDay + 1) * HoursPerDay + 10 + 7

\* Local midnight of a day as the layer stores it, a UTC instant.
Midnight(day) == tz_localize(day * HoursPerDay)

\* Rows the county time-series layer may hold, as load_esri_time_series reads
\* them (a null cell reads as NaN): two differing rows for Los Angeles on the
\* run's date, and one of the day before for a county no scraper covers.
HistRow(county, d, cases, deaths) ==
    [state |-> "CA", county |-> county, date |-> d, latitude |-> "34.05",
     longitude |-> "-118.25", cases |-> cases, deaths |-> deaths,
     recovered |-> NaN, travel_based |-> NaN, locally_acquired |-> NaN,
     ca_total |-> I(0), non_scag_total |-> NaN]

HistRows ==
    {HistRow("Los Angeles", Midnight(DstStartDay + 1), I(35), NaN),
     HistRow("Los Angeles", Midnight(DstStartDay + 1), F(380), I(1)),
     HistRow("Kern", Midnight(DstStartDay), NaN, I(0))}

SeqsUpTo(S, n) == UNION {[1..k -> S] : k \in 0..n}

\* The columns of the county time-series layer besides ObjectId and SHAPE:
\* those of `columns`, and possibly a number_of_cases column.
LayerSchemas == {Range(columns), Range(columns) \cup {"number_of_cases"}}

WideColumns(dates) == <<"Province/State", "Country/Region", "Lat", "Long">> \o dates

WideRow(province, country, lat, long, dates, counts) ==
    [c \in Range(WideColumns(dates)) |->
        CASE c = "Province/State" -> province [] c = "Country/Region" -> country
          [] c = "Lat" -> lat [] c = "Long" -> long
          [] OTHER -> I(counts[CHOOSE i \in DOMAIN dates : dates[i] = c])]

\* A wide table of three regions and one US county; n offsets the counts.
WideTable(dates, n) ==
    [columns |-> WideColumns(dates),
     rows |-> <<WideRow("Hubei", "China", "30.97", "112.27", dates, [i \in DOMAIN dates |-> 60 + n + i]),
                WideRow(NoProvince, "Canada", "56.13", "-106.34", dates, [i \in DOMAIN dates |-> 20 + n + i]),
                WideRow("Los Angeles, CA", "US", "34.05", "-118.25", dates, [i \in DOMAIN dates |-> 10 + n + i]),
                WideRow("California", "US", "36.11", "-119.68", dates, [i \in DOMAIN dates |-> 40 + n + i])>>]

\* The three JHU files as read: well formed, or with a recovered file that
\* lacks the latest date column.
JhuInputs ==
    {[cases |-> WideTable(<<"3/9/20", "3/10/20">>, 0),
      deaths |-> WideTable(<<"3/9/20", "3/10/20">>, 3),
      recovered |-> WideTable(<<"3/9/20", "3/10/20">>, 5)],
     [cases |-> WideTable(<<"3/10/20", "3/11/20">>, 0),
      deaths |-> WideTable(<<"3/10/20", "3/11/20">>, 3),
      recovered |-> WideTable(<<"3/10/20">>, 5)]}

\* What the state layers hold from an earlier run.
JhuEarlier ==
    [cases |-> WideTable(<<"3/9/20">>, 0), deaths |-> WideTable(<<"3/9/20">>, 3),
     recovered |-> WideTable(<<"3/9/20">>, 5)]

\* JHU county dates and clock readings explored for the date normalization:
\* the days around both daylight-saving transitions, every hour of them.
TransitionDays ==
    {d \in 0..365 : \/ d >= DstStartDay - DayWindow /\ d <= DstStartDay + DayWindow
                    \/ d >= DstEndDay - DayWindow /\ d <= DstEndDay + DayWindow}
MonthDays == {md \in (1..12) \X (1..31) :
                 /\ md[1] = 12 \/ DaysBefore[md[1]] + md[2] <= DaysBefore[md[1] + 1]
                 /\ DaysBefore[md[1]] + md[2] - 1 \in TransitionDays}
ClockReadings == {d * HoursPerDay + h : d \in TransitionDays, h \in 0..(HoursPerDay - 1)}

\* --------------------------------------------------------------------------
\* State.

VARIABLES
    pc,             \* where the task is
    now,            \* the clock reading when the module is imported
    date,           \* the module-level `date` (line 54)
    jhu_date_in,    \* a date header handed to load_jhu_county_time_series
    jhu_date,       \* the date it is normalized to (lines 221-224)
    jhu_df,         \* what load_jhu_time_series returns (line 152)
    task_state,     \* the scheduler's state of the task sync-jhu-to-esri
    layers,         \* feature id -> the rows the layer holds
    layer_columns,  \* the columns of the county time-series layer
    files,          \* file name -> the temporary file
    jhu,            \* the three JHU files as the state job reads them
    prev_data, county_dfs, county_data, merged, df, df_columns,
                    \* locals of the county job and of the scrape
    sdf, current_df,
                    \* locals of the state job
    invoked,        \* the scrapers called so far, in order, and whether each raised
    jobs,           \* the jobs load_data has called, in order
    result,         \* job, or load_data -> "none", "returned" or "raised"
    exc,            \* job -> the step that raised, "" if none
    layers0,        \* the layers when the run started
    published       \* the layers when the county job ended

vars == <<pc, now, date, jhu_date_in, jhu_date, jhu_df, task_state, layers, layer_columns, files, jhu,
          prev_data, county_dfs, county_data, merged, df, df_columns, sdf,
          current_df, invoked, jobs, result, exc, layers0, published>>

outer_vars == <<now, date, jhu_date_in, jhu_date, jhu_df, task_state>>
county_locals == <<prev_data, county_dfs, county_data, merged, df, df_columns, invoked>>
state_locals == <<sdf, current_df>>
history == <<jobs, result, exc, layers0, published>>

NotYet == 0 - 1

InitLocals ==
    /\ prev_data = <<>> /\ county_dfs = <<>> /\ county_data = <<>>
    /\ merged = <<>> /\ df = <<>> /\ df_columns = {} /\ invoked = <<>>
    /\ sdf = <<>> /\ current_df = <<>>
    /\ jobs = <<>> /\ jhu_df = <<>> /\ task_state = "running"
    /\ result = [county |-> "none", state |-> "none", load_data |-> "none"]
    /\ exc = [county |-> "", state |-> ""]

Init ==
    /\ pc = "import"
    /\ now = RunNow /\ date = NotYet
    /\ jhu_date_in = <<1, 1>> /\ jhu_date = NotYet
    /\ \E hist \in SeqsUpTo(HistRows, MaxHist) :
          layers = [id \in FeatureIds |->
              CASE id = time_series_featureid -> hist
                [] id = current_featureid -> most_recent(hist)
                [] id = jhu_time_series_featureid -> load_jhu_state_time_series(JhuEarlier)
                [] id = jhu_current_featureid ->
                       most_recent(parse_dates(load_jhu_state_time_series(JhuEarlier)))]
    /\ layer_columns \in LayerSchemas
    /\ files = [f \in Filenames |-> NoFile]
    /\ jhu \in JhuInputs
    /\ InitLocals
    /\ layers0 = layers /\ published = layers

\* --------------------------------------------------------------------------
\* The task.  Importing the module computes `date`; load_data then calls the
\* two jobs.  A call that reaches outside the process (the secret store, the
\* GIS service, a web page, a JHU file) returns or raises an Exception.
\* logging calls change no state and are left out.

ClearCountyLocals ==
    /\ prev_data' = <<>> /\ county_dfs' = <<>> /\ county_data' = <<>>
    /\ merged' = <<>> /\ df' = <<>> /\ df_columns' = {} /\ invoked' = <<>>

\* Line 54.
ImportModule ==
    /\ pc = "import"
    /\ date' = ExecutionDate(now)
    /\ pc' = "load_data"
    /\ UNCHANGED <<now, jhu_date_in, jhu_date, jhu_df, task_state, layers, layer_columns,
                   files, jhu,
                   county_locals, state_locals, history>>

\* load_data, line 556: call load_county_covid_data.
CallCounty ==
    /\ pc = "load_data"
    /\ jobs' = Append(jobs, "county")
    /\ pc' = "c_login"
    /\ UNCHANGED <<outer_vars, layers, layer_columns, files, jhu, county_locals,
                   state_locals, result, exc, layers0, published>>

\* A mutant of CountyRaises: load_data without its first try block, so the
\* exception leaves load_data as well.
CountyRaisesPropagates(step) ==
    /\ result' = [result EXCEPT !.county = "raised", !.load_data = "raised"]
    /\ exc' = [exc EXCEPT !.county = step]
    /\ published' = layers
    /\ ClearCountyLocals
    /\ pc' = "done"

\* An exception leaves load_county_covid_data at `step`: its locals are gone,
\* the except clause of load_data (lines 557-558) logs it, and load_data goes
\* on to the state job.  Nothing else is done: files written stay.
CountyRaises(step) ==
    /\ result' = [result EXCEPT !.county = "raised"]
    /\ exc' = [exc EXCEPT !.county = step]
    /\ published' = layers
    /\ ClearCountyLocals
    /\ pc' = "call_state"

\* Lines 505-508: the credential lookup and the GIS login.
CountyLogin ==
    /\ pc = "c_login"
    /\ \/ /\ pc' = "c_load_esri"
          /\ UNCHANGED <<county_locals, result, exc, published>>
       \/ /\ CountyRaises("login")
    /\ UNCHANGED <<outer_vars, layers, layer_columns, files, jhu, state_locals,
                   jobs, layers0>>

\* load_esri_time_series (lines 230-241), called at line 512: the layer's
\* rows without ObjectId and SHAPE, deduplicated keeping the last.
load_esri_time_series(layer) == drop_duplicates(layer)

CountyLoadEsri ==
    /\ pc = "c_load_esri"
    /\ \/ /\ prev_data' = load_esri_time_series(layers[time_series_featureid])
          /\ df_columns' = layer_columns
          /\ pc' = "c_scrape"
          /\ UNCHANGED <<county_dfs, county_data, merged, df, invoked, result,
                         exc, published>>
       \/ /\ CountyRaises("load_esri")
    /\ UNCHANGED <<outer_vars, layers, layer_columns, files, jhu, state_locals,
                   jobs, layers0>>

\* scrape_county_public_health_data, lines 424-458: the next try block.  The
\* scraper is called; its dict is appended to county_dfs, or its exception
\* is caught and logged.
Scrape ==
    /\ pc = "c_scrape"
    /\ Len(invoked) < Len(scrapers)
    /\ LET c == scrapers[Len(invoked) + 1]
       IN  \/ /\ \E page \in Pages(c) :
                    county_dfs' = Append(county_dfs, scrape(c, page, date))
              /\ invoked' = Append(invoked, [scraper |-> c, raised |-> FALSE])
           \/ /\ county_dfs' = county_dfs
              /\ invoked' = Append(invoked, [scraper |-> c, raised |-> TRUE])
    /\ UNCHANGED <<pc, outer_vars, layers, layer_columns, files, jhu, prev_data,
                   county_data, merged, df, df_columns, state_locals, history>>

\* Line 460: df.append(county_dfs, ignore_index=True) on the empty frame of
\* `columns`.  With an empty list, pandas before 1.0 evaluates other[0] and
\* raises IndexError; pandas from 1.0 on returns the empty frame.  The file
\* pins no version (its TODO at line 103 speaks of one before 0.25), so both
\* outcomes are possible.
ScrapeAppend ==
    /\ pc = "c_scrape"
    /\ Len(invoked) = Len(scrapers)
    /\ \/ /\ county_data' = frame_of_dicts(county_dfs)
          /\ pc' = "c_merge"
          /\ UNCHANGED <<prev_data, county_dfs, merged, df, df_columns, invoked,
                         result, exc, published>>
       \/ /\ county_dfs = <<>>
          /\ CountyRaises("scrape")
    /\ UNCHANGED <<outer_vars, layers, layer_columns, files, jhu, state_locals,
                   jobs, layers0>>

\* Lines 515-520: prev_data.append(county_data, sort=False)
\* .drop_duplicates(subset=["date", "county"], keep="last").reset_index(drop=True)
\* .pipe(coerce_integer).  `merged` is the frame handed to coerce_integer.
CountyMerge ==
    /\ pc = "c_merge"
    /\ merged' = drop_duplicates(append(prev_data, county_data))
    /\ df' = coerce_integer(merged')
    /\ df_columns' = df_columns \cup Range(columns)
    /\ pc' = "c_assign"
    /\ UNCHANGED <<outer_vars, layers, layer_columns, files, jhu, prev_data,
                   county_dfs, county_data, invoked, state_locals, history>>

\* Line 523: df.assign(ca_total=0, non_scag_total=0).
CountyAssign ==
    /\ pc = "c_assign"
    /\ df' = [i \in DOMAIN df |-> [df[i] EXCEPT !.ca_total = I(0), !.non_scag_total = I(0)]]
    /\ pc' = "c_to_numeric"
    /\ UNCHANGED <<outer_vars, layers, layer_columns, files, jhu, prev_data,
                   county_dfs, county_data, merged, df_columns, invoked,
                   state_locals, history>>

\* Line 527: df['number_of_cases'] = pd.to_numeric(df['number_of_cases']).
\* Reading a column the frame does not have raises KeyError; the cells of
\* one it has are numbers already, and stay as they are.
CountyToNumeric ==
    /\ pc = "c_to_numeric"
    /\ \/ /\ "number_of_cases" \in df_columns
          /\ pc' = "c_csv"
          /\ UNCHANGED <<county_locals, result, exc, published>>
       \/ /\ "number_of_cases" \notin df_columns
          /\ CountyRaises("to_numeric")
    /\ UNCHANGED <<outer_vars, layers, layer_columns, files, jhu, state_locals,
                   jobs, layers0>>

\* Lines 530-535: the time series and its most recent date, each to a file.
CountyToCsv ==
    /\ pc = "c_csv"
    /\ files' = [files EXCEPT ![county_time_series_filename] = File(df),
                              ![county_most_recent_date_filename] = File(most_recent(df))]
    /\ pc' = "c_overwrite_ts"
    /\ UNCHANGED <<outer_vars, layers, layer_columns, jhu, county_locals,
                   state_locals, history>>

\* A mutant of CountyOverwriteTimeSeries: the first block looks up
\* current_featureid.
CountyOverwriteTimeSeriesWrongId ==
    /\ pc = "c_overwrite_ts"
    /\ \/ /\ layers' = [layers EXCEPT ![current_featureid] =
                                          files[county_time_series_filename].rows]
          /\ layer_columns' = df_columns
          /\ pc' = "c_overwrite_current"
          /\ UNCHANGED <<county_locals, result, exc, published>>
       \/ /\ UNCHANGED <<layers, layer_columns>>
          /\ CountyRaises("overwrite_ts")
    /\ UNCHANGED <<outer_vars, files, jhu, state_locals, jobs, layers0>>

\* Lines 538-540: look the time-series layer up and overwrite it with the
\* first file.  A call that raises leaves the layer as it was.
CountyOverwriteTimeSeries ==
    /\ pc = "c_overwrite_ts"
    /\ \/ /\ layers' = [layers EXCEPT ![time_series_featureid] =
                                          files[county_time_series_filename].rows]
          /\ layer_columns' = df_columns
          /\ pc' = "c_overwrite_current"
          /\ UNCHANGED <<county_locals, result, exc, published>>
       \/ /\ UNCHANGED <<layers, layer_columns>>
          /\ CountyRaises("overwrite_ts")
    /\ UNCHANGED <<outer_vars, files, jhu, state_locals, jobs, layers0>>

\* Lines 542-544: the same for the current layer and the second file.
CountyOverwriteCurrent ==
    /\ pc = "c_overwrite_current"
    /\ \/ /\ layers' = [layers EXCEPT ![current_featureid] =
                                          files[county_most_recent_date_filename].rows]
          /\ pc' = "c_remove"
          /\ UNCHANGED <<county_locals, result, exc, published>>
       \/ /\ UNCHANGED layers
          /\ CountyRaises("overwrite_current")
    /\ UNCHANGED <<outer_vars, layer_columns, files, jhu, state_locals, jobs, layers0>>

\* Lines 547-548: remove both files; the job returns.
CountyRemove ==
    /\ pc = "c_remove"
    /\ files' = [files EXCEPT ![county_time_series_filename] = NoFile,
                              ![county_most_recent_date_filename] = NoFile]
    /\ result' = [result EXCEPT !.county = "returned"]
    /\ published' = layers
    /\ ClearCountyLocals
    /\ pc' = "call_state"
    /\ UNCHANGED <<outer_vars, layers, layer_columns, jhu, state_locals, jobs,
                   exc, layers0>>

\* A mutant of StateRaises: load_data without its second try block, so the
\* exception leaves load_data as well.
StateRaisesPropagates(step) ==
    /\ result' = [result EXCEPT !.state = "raised", !.load_data = "raised"]
    /\ exc' = [exc EXCEPT !.state = step]
    /\ sdf' = <<>> /\ current_df' = <<>>
    /\ pc' = "done"

\* An exception leaves load_state_covid_data at `step`; the except clause of
\* load_data (lines 561-562) logs it and load_data returns.
StateRaises(step) ==
    /\ result' = [result EXCEPT !.state = "raised", !.load_data = "returned"]
    /\ exc' = [exc EXCEPT !.state = step]
    /\ sdf' = <<>> /\ current_df' = <<>>
    /\ pc' = "done"

\* load_data, line 560: call load_state_covid_data.
CallState ==
    /\ pc = "call_state"
    /\ jobs' = Append(jobs, "state")
    /\ pc' = "s_login"
    /\ UNCHANGED <<outer_vars, layers, layer_columns, files, jhu, county_locals,
                   state_locals, result, exc, layers0, published>>

\* Lines 469-472.
StateLogin ==
    /\ pc = "s_login"
    /\ \/ /\ pc' = "s_load"
          /\ UNCHANGED <<state_locals, result, exc>>
       \/ StateRaises("login")
    /\ UNCHANGED <<outer_vars, layers, layer_columns, files, jhu, county_locals,
                   jobs, layers0, published>>

\* Line 474: load_jhu_state_time_series.  Reading a JHU file may raise, and
\* so does the melt of a recovered table that lacks a column of the deaths
\* table.
StateLoad ==
    /\ pc = "s_load"
    /\ \/ /\ ~jhu_time_series_raises(jhu)
          /\ sdf' = load_jhu_state_time_series(jhu)
          /\ pc' = "s_csv"
          /\ UNCHANGED <<current_df, result, exc>>
       \/ /\ jhu_time_series_raises(jhu)
          /\ StateRaises("melt")
       \/ StateRaises("read_csv")
    /\ UNCHANGED <<outer_vars, layers, layer_columns, files, jhu, county_locals,
                   jobs, layers0, published>>

\* Lines 476-484: the time series, and the rows of its most recent date with
\* the date parsed, each to a file.
StateToCsv ==
    /\ pc = "s_csv"
    /\ current_df' = parse_dates(sdf)
    /\ files' = [files EXCEPT ![state_time_series_filename] = File(sdf),
                              ![state_most_recent_date_filename] = File(most_recent(current_df'))]
    /\ pc' = "s_overwrite_ts"
    /\ UNCHANGED <<outer_vars, layers, layer_columns, jhu, county_locals, sdf,
                   history>>

\* Lines 487-489.
StateOverwriteTimeSeries ==
    /\ pc = "s_overwrite_ts"
    /\ \/ /\ layers' = [layers EXCEPT ![jhu_time_series_featureid] =
                                          files[state_time_series_filename].rows]
          /\ pc' = "s_overwrite_current"
          /\ UNCHANGED <<state_locals, result, exc>>
       \/ /\ UNCHANGED layers
          /\ StateRaises("overwrite_ts")
    /\ UNCHANGED <<outer_vars, layer_columns, files, jhu, county_locals, jobs,
                   layers0, published>>

\* Lines 491-493.
StateOverwriteCurrent ==
    /\ pc = "s_overwrite_current"
    /\ \/ /\ layers' = [layers EXCEPT ![jhu_current_featureid] =
                                          files[state_most_recent_date_filename].rows]
          /\ pc' = "s_remove"
          /\ UNCHANGED <<state_locals, result, exc>>
       \/ /\ UNCHANGED layers
          /\ StateRaises("overwrite_current")
    /\ UNCHANGED <<outer_vars, layer_columns, files, jhu, county_locals, jobs,
                   layers0, published>>

\* Lines 496-497: remove both files; the job, and load_data, return.
StateRemove ==
    /\ pc = "s_remove"
    /\ files' = [files EXCEPT ![state_time_series_filename] = NoFile,
                              ![state_most_recent_date_filename] = NoFile]
    /\ result' = [result EXCEPT !.state = "returned", !.load_data = "returned"]
    /\ sdf' = <<>> /\ current_df' = <<>>
    /\ pc' = "done"
    /\ UNCHANGED <<outer_vars, layers, layer_columns, jhu, county_locals, jobs,
                   exc, layers0, published>>

\* default_args, line 572.
retries == 1

\* The task t1 (lines 579-585) ends: the PythonOperator has called load_data.
\* Airflow marks the task instance a success when the callable returns; when
\* it raises, the instance is up for retry while tries remain (this is the
\* first try) and failed otherwise.
TaskEnds ==
    /\ pc = "done"
    /\ task_state' = IF result.load_data = "returned" THEN "success"
                     ELSE IF retries >= 1 THEN "up_for_retry" ELSE "failed"
    /\ pc' = "ended"
    /\ UNCHANGED <<now, date, jhu_date_in, jhu_date, jhu_df, layers, layer_columns,
                   files, jhu, county_locals, state_locals, history>>

Next ==
    \/ ImportModule
    \/ CallCounty \/ CountyLogin \/ CountyLoadEsri \/ Scrape \/ ScrapeAppend
    \/ CountyMerge \/ CountyAssign \/ CountyToNumeric \/ CountyToCsv
    \/ CountyOverwriteTimeSeries \/ CountyOverwriteCurrent \/ CountyRemove
    \/ CallState \/ StateLogin \/ StateLoad \/ StateToCsv
    \/ StateOverwriteTimeSeries \/ StateOverwriteCurrent \/ StateRemove
    \/ TaskEnds

\* One run of the task sync-jhu-to-esri.
Spec == Init /\ [][Next]_vars

\* --------------------------------------------------------------------------
\* The date normalization alone: the module-level `date` for any clock
\* reading, and the date column of load_jhu_county_time_series for any header.

InitDate ==
    /\ pc = "import"
    /\ now \in ClockReadings /\ date = NotYet
    /\ jhu_date_in \in MonthDays /\ jhu_date = NotYet
    /\ layers = [id \in FeatureIds |-> <<>>]
    /\ layer_columns = Range(columns)
    /\ files = [f \in Filenames |-> NoFile]
    /\ jhu = JhuEarlier
    /\ InitLocals
    /\ layers0 = layers /\ published = layers

\* load_jhu_county_time_series, lines 221-224, for one date header.
NormalizeJhuDate ==
    /\ jhu_date = NotYet
    /\ jhu_date' = JhuCountyDate(jhu_date_in)
    /\ UNCHANGED <<pc, now, date, jhu_date_in, jhu_df, task_state, layers, layer_columns,
                   files, jhu,
                   county_locals, state_locals, history>>

NextDate == ImportModule \/ NormalizeJhuDate

SpecDate == InitDate /\ [][NextDate]_vars

\* --------------------------------------------------------------------------
\* load_jhu_time_series alone, on any three JHU files of a few regions and
\* date columns: the same rows or other rows, in the same order or another.

\* <<Province/State, Country/Region, Lat, Long>> of the regions of a file.
Regions == {<<"Hubei", "China", "30.97", "112.27">>,
            <<NoProvince, "Canada", "56.13", "-106.34">>,
            <<"California", "US", "36.11", "-119.68">>}

\* The count a file has for a region on a date; n tells the files apart.
RegionCount(r, c, n) ==
    (CASE r[2] = "China" -> 60 [] r[2] = "Canada" -> 20 [] OTHER -> 40)
    + (IF c = "3/9/20" THEN 1 ELSE 2) + n

DateColumnLists == {<<"3/9/20">>, <<"3/9/20", "3/10/20">>, <<"3/10/20", "3/9/20">>}

RegionLists == {rs \in SeqsUpTo(Regions, MaxRegions) :
                   /\ rs # <<>>
                   /\ \A i, j \in DOMAIN rs : rs[i] = rs[j] => i = j}

WideTableOf(rs, dates, n) ==
    [columns |-> WideColumns(dates),
     rows |-> [i \in DOMAIN rs |->
                  [c \in Range(WideColumns(dates)) |->
                      CASE c = "Province/State" -> rs[i][1]
                        [] c = "Country/Region" -> rs[i][2]
                        [] c = "Lat" -> rs[i][3] [] c = "Long" -> rs[i][4]
                        [] OTHER -> I(RegionCount(rs[i], c, n))]]]

WideTables(n) == {WideTableOf(rs, dates, n) : rs \in RegionLists, dates \in DateColumnLists}

InitJhu ==
    /\ pc = "load_jhu_time_series"
    /\ now = RunNow /\ date = NotYet
    /\ jhu_date_in = <<1, 1>> /\ jhu_date = NotYet
    /\ layers = [id \in FeatureIds |-> <<>>]
    /\ layer_columns = Range(columns)
    /\ files = [f \in Filenames |-> NoFile]
    /\ jhu \in [cases : WideTables(0), deaths : WideTables(3), recovered : WideTables(5)]
    /\ InitLocals
    /\ layers0 = layers /\ published = layers

\* load_jhu_time_series (lines 123-152) on the three files read: it returns
\* the joined frame, or the melt of the recovered table raises KeyError.
LoadJhuTimeSeries ==
    /\ pc = "load_jhu_time_series"
    /\ \/ /\ ~jhu_time_series_raises(jhu)
          /\ jhu_df' = load_jhu_time_series(jhu)
          /\ pc' = "returned"
       \/ /\ jhu_time_series_raises(jhu)
          /\ jhu_df' = jhu_df
          /\ pc' = "raised"
    /\ UNCHANGED <<now, date, jhu_date_in, jhu_date, task_state, layers, layer_columns,
                   files, jhu, county_locals, state_locals, history>>

NextJhu == LoadJhuTimeSeries

SpecJhu == InitJhu /\ [][NextJhu]_vars

\* --------------------------------------------------------------------------
\* Properties of the county merge (lines 512-520), read once CountyMerge has
\* run and before the frame is changed again.

Key(r) == <<r.date, r.county>>
Keys(rows) == {Key(rows[i]) : i \in DOMAIN rows}
Merged == pc = "c_assign"
Historical == layers[time_series_featureid]

\* C1: the merged table holds exactly one row for each (date, county) key of
\* the historical layer or of the scraped records, and no row of another key.
C1_OneRowPerKey ==
    Merged =>
        /\ \A k \in Keys(Historical) \cup Keys(county_data) :
              Cardinality({i \in DOMAIN df : Key(df[i]) = k}) = 1
        /\ Keys(df) \subseteq Keys(Historical) \cup Keys(county_data)

\* The layer holds a key twice, a scraped record has that key as well, and
\* other scraped records have keys the layer lacks.
C1_Witness ==
    /\ Merged
    /\ Cardinality(Keys(Historical)) < Len(Historical)
    /\ Keys(Historical) \cap Keys(county_data) # {}
    /\ Cardinality(Keys(county_data) \ Keys(Historical)) > 1

\* C2: where the historical layer and a scraped record have the same (date,
\* county) and differ, the merged row has every field of the scraped record
\* as the scraper returned it, None included.
C2_ScrapedOverridesHistorical ==
    Merged =>
        \A n \in DOMAIN county_dfs, h \in DOMAIN Historical :
            LET s == county_dfs[n]
            IN  (Key(Historical[h]) = Key(s)
                 /\ \E f \in DOMAIN s : Historical[h][f] # s[f])
                => \E i \in DOMAIN df :
                      /\ Key(df[i]) = Key(s)
                      /\ \A f \in DOMAIN s : df[i][f] = s[f]

\* Los Angeles is in the layer for the run's date with other counts than the
\* scraper returns, and the scraped record has None fields.
C2_Witness ==
    /\ Merged
    /\ \E n \in DOMAIN county_dfs, h \in DOMAIN Historical :
          /\ Key(Historical[h]) = Key(county_dfs[n])
          /\ Historical[h].cases # county_dfs[n].cases
          /\ county_dfs[n].recovered = None
          /\ county_dfs[n].cases.k = "int"

\* C8: coerce_integer turns every null cell of its seven columns into None,
\* never into 0, every other cell of them into the integer of its value, and
\* keeps the other columns and the number of rows.
C8_CoerceKeepsUnknown ==
    Merged =>
        /\ Len(df) = Len(merged)
        /\ \A i \in DOMAIN merged :
              /\ DOMAIN df[i] = DOMAIN merged[i]
              /\ \A c \in DOMAIN merged[i] :
                    LET x == merged[i][c]
                        y == df[i][c]
                    IN  IF c \notin Range(cols) THEN y = x
                        ELSE IF x.k \in {"None", "NaN"} THEN y = None /\ y # I(0)
                        ELSE /\ y.k = "int"
                             /\ IF x.k = "int" THEN y.v = x.v
                                ELSE 10 * y.v <= x.v /\ x.v < 10 * y.v + 10

\* The seven columns of the frame handed to coerce_integer hold a NaN, a
\* None, a float and an int, and the NaN has come out as None.
C8_Witness ==
    /\ Merged
    /\ \E i \in DOMAIN merged, c \in Range(cols) : merged[i][c] = NaN /\ df[i][c] = None
    /\ \A kind \in {"None", "float", "int"} :
          \E i \in DOMAIN merged, c \in Range(cols) :
              merged[i][c].k = kind /\ (kind = "float" => merged[i][c].v > 0)

\* --------------------------------------------------------------------------
\* Properties of the scrape and of the two jobs.

Scraped == pc = "c_merge"
Succeeded == {invoked[i].scraper : i \in {j \in DOMAIN invoked : ~invoked[j].raised}}

\* C3: whichever scrapers raise, scrape_county_public_health_data calls all six
\* once each in order and returns one record for each that succeeded, none
\* for one that failed.
C3_ScrapeAlwaysReturns ==
    /\ exc.county # "scrape"
    /\ Scraped =>
          /\ [i \in DOMAIN invoked |-> invoked[i].scraper] = scrapers
          /\ \A c \in Range(scrapers) :
                Cardinality({i \in DOMAIN county_data : county_data[i].county = c})
                    = IF c \in Succeeded THEN 1 ELSE 0
          /\ Len(county_data) = Cardinality(Succeeded)

CountyLayers == {time_series_featureid, current_featureid}
StateLayers == {jhu_time_series_featureid, jhu_current_featureid}
Same(ids, a, b) == \A id \in ids : a[id] = b[id]

\* C4: load_data calls the state job after the county job, whether that
\* returned or raised, and a state job that fails leaves the county layers as
\* the county job left them.
C4_JobsIsolated ==
    /\ (result.county # "none" /\ pc # "call_state") => jobs = <<"county", "state">>
    /\ result.state = "raised" => Same(CountyLayers, layers, published)

\* The county job raised after overwriting its time-series layer, and the
\* state job, called all the same, raised too.
C4_Witness ==
    /\ result.county = "raised" /\ result.state = "raised"
    /\ jobs = <<"county", "state">>
    /\ published[time_series_featureid] # layers0[time_series_featureid]

\* C5: a county job whose login, load of the historical layer and overwrite
\* calls succeed overwrites both layers; it raises at none of its other steps.
C5_CountyPublishes ==
    /\ result.county = "raised" =>
          exc.county \in {"login", "load_esri", "overwrite_ts", "overwrite_current"}
    /\ pc = "c_remove" =>
          /\ layers[time_series_featureid] = df
          /\ layers[current_featureid] = most_recent(df)

\* C6: a job that has ended has left neither of its temporary files behind.
C6_TempFilesRemoved ==
    /\ result.county # "none" =>
          /\ ~files[county_time_series_filename].exists
          /\ ~files[county_most_recent_date_filename].exists
    /\ result.state # "none" =>
          /\ ~files[state_time_series_filename].exists
          /\ ~files[state_most_recent_date_filename].exists

\* C7: a job that failed has left both of its layers as they were when the
\* run started.
C7_FailedPublishUntouched ==
    /\ result.county = "raised" => Same(CountyLayers, layers, layers0)
    /\ result.state = "raised" => Same(StateLayers, layers, layers0)

\* C7 as the code has it: a job that failed has left its current layer as it
\* was; its time-series layer is as it was unless the job failed at the second
\* overwrite, and then holds the table of the job's time-series file.
C7_FailedPublishPartial ==
    /\ result.county = "raised" =>
          /\ layers[current_featureid] = layers0[current_featureid]
          /\ layers[time_series_featureid] =
                IF exc.county = "overwrite_current"
                THEN files[county_time_series_filename].rows
                ELSE layers0[time_series_featureid]
    /\ result.state = "raised" =>
          /\ layers[jhu_current_featureid] = layers0[jhu_current_featureid]
          /\ layers[jhu_time_series_featureid] =
                IF exc.state = "overwrite_current"
                THEN files[state_time_series_filename].rows
                ELSE layers0[jhu_time_series_featureid]

\* The county job failed at its second overwrite with the time-series layer
\* already replaced by another table.
C7_Witness ==
    /\ result.county = "raised" /\ exc.county = "overwrite_current"
    /\ layers[time_series_featureid] # layers0[time_series_featureid]
    /\ layers[current_featureid] = layers0[current_featureid]

\* Whether `current` holds exactly the rows of `table` that have its greatest
\* date: each of them, as often as the table has it, and no row of an
\* earlier date.
OnlyLatest(current, table) ==
    LET latest == {i \in DOMAIN table : \A j \in DOMAIN table : table[j].date <= table[i].date}
    IN  /\ \A i \in latest : \E k \in DOMAIN current : current[k] = table[i]
        /\ \A k \in DOMAIN current : \E i \in latest : current[k] = table[i]
        /\ Len(current) = Cardinality(latest)

\* C9: in both jobs the second file holds exactly the rows of the time series
\* that have its greatest date (in the state job with the date parsed).
C9_CurrentIsMostRecent ==
    /\ files[county_most_recent_date_filename].exists =>
          OnlyLatest(files[county_most_recent_date_filename].rows,
                     files[county_time_series_filename].rows)
    /\ files[state_most_recent_date_filename].exists =>
          OnlyLatest(files[state_most_recent_date_filename].rows,
                     parse_dates(files[state_time_series_filename].rows))

\* Both jobs have written their files, and each time series has rows of an
\* earlier date that its second file leaves out.
C9_Witness ==
    /\ files[county_most_recent_date_filename].exists
    /\ files[state_most_recent_date_filename].exists
    /\ Len(files[county_most_recent_date_filename].rows) > 1
    /\ Len(files[county_most_recent_date_filename].rows)
          < Len(files[county_time_series_filename].rows)
    /\ Len(files[state_most_recent_date_filename].rows) > 1
    /\ Len(files[state_most_recent_date_filename].rows)
          < Len(files[state_time_series_filename].rows)

\* --------------------------------------------------------------------------
\* Properties of the date normalization, under SpecDate.

\* The days whose midnight is in daylight-saving time: the transitions are at
\* 02:00, so March 8th starts in standard time and November 1st does not.
StartsInDaylightTime(day) == day > DstStartDay /\ day <= DstEndDay
MidnightUtc(day) == day * HoursPerDay + (IF StartsInDaylightTime(day) THEN 7 ELSE 8)
DayOfYear(md) == DaysBefore[md[1]] + md[2] - 1

UtcHour(utc) == utc % HoursPerDay

\* C10: the normalized date of any two calendar days has the same UTC time
\* of day.
C10_SameUtcHour ==
    (date # NotYet /\ jhu_date # NotYet) => UtcHour(date) = UtcHour(jhu_date)

\* C10 as the code has it: the date is the UTC instant of the day's Pacific
\* midnight, 08:00 UTC for a day that starts in standard time and 07:00 UTC
\* for one that starts in daylight-saving time; `date` is the midnight of the
\* Pacific day the clock reading lies in.
C10_LocalMidnight ==
    /\ jhu_date # NotYet => jhu_date = MidnightUtc(DayOfYear(jhu_date_in))
    /\ date # NotYet =>
          \E day \in 0 - 1 .. 366 :
              /\ date = MidnightUtc(day)
              /\ date <= now /\ now < MidnightUtc(day + 1)

\* A day of daylight-saving time and a day of standard time, both normalized.
C10_Witness ==
    /\ date # NotYet /\ UtcHour(date) = 7
    /\ jhu_date # NotYet /\ UtcHour(jhu_date) = 8


\* --------------------------------------------------------------------------
\* Properties of load_jhu_time_series, under SpecJhu.

IdColumns == {"Province/State", "Country/Region", "Lat", "Long"}

\* The three files have the same region rows in the same order and the same
\* date columns in the same order.
Aligned ==
    /\ jhu.deaths.columns = jhu.cases.columns
    /\ jhu.recovered.columns = jhu.cases.columns
    /\ Len(jhu.deaths.rows) = Len(jhu.cases.rows)
    /\ Len(jhu.recovered.rows) = Len(jhu.cases.rows)
    /\ \A i \in DOMAIN jhu.cases.rows, c \in IdColumns :
          /\ jhu.deaths.rows[i][c] = jhu.cases.rows[i][c]
          /\ jhu.recovered.rows[i][c] = jhu.cases.rows[i][c]

\* C11: for three aligned files the frame load_jhu_time_series returns has
\* exactly one row for each region row and date column; it carries the
\* region's non-date columns and the cases, deaths and recovered counts that
\* the three files give for that region on that date.
C11_JoinedByRegionAndDate ==
    (pc = "returned" /\ Aligned) =>
        LET dates == parse_columns(jhu.cases)[2]
        IN  /\ Len(jhu_df) = Len(jhu.cases.rows) * Len(dates)
            /\ \A r \in DOMAIN jhu.cases.rows, d \in Range(dates) :
                  LET hits == {k \in DOMAIN jhu_df :
                                  /\ jhu_df[k]["date"] = d
                                  /\ \A c \in IdColumns : jhu_df[k][c] = jhu.cases.rows[r][c]}
                  IN  /\ Cardinality(hits) = 1
                      /\ \A k \in hits :
                            /\ jhu_df[k]["cases"] = jhu.cases.rows[r][d]
                            /\ jhu_df[k]["deaths"] = jhu.deaths.rows[r][d]
                            /\ jhu_df[k]["recovered"] = jhu.recovered.rows[r][d]

\* Three aligned files of two regions and two dates have been joined.
C11_Witness ==
    /\ pc = "returned" /\ Aligned
    /\ Len(jhu.cases.rows) > 1
    /\ Len(parse_columns(jhu.cases)[2]) > 1
    /\ Len(jhu_df) = 4

\* --------------------------------------------------------------------------
\* Properties of load_data as the callable of the task, under Spec.

AllLayers == CountyLayers \cup StateLayers

\* C12: load_data returns normally whatever the two jobs raise; the task ends
\* a success and is never failed or up for retry, also when neither job
\* published anything.
C12_LoadDataAlwaysReturns ==
    /\ result.load_data # "raised"
    /\ (result.county # "none" /\ result.state # "none") => result.load_data = "returned"
    /\ task_state \notin {"failed", "up_for_retry"}
    /\ pc = "ended" => task_state = "success"

\* Both jobs raised, no layer has changed, and the task has ended a success.
C12_Witness ==
    /\ pc = "ended" /\ task_state = "success"
    /\ result.county = "raised" /\ result.state = "raised"
    /\ Same(AllLayers, layers, layers0)

==========================================================================
